---- MODULE Spec2Model ----
(***************************************************************************)
(* Game (src/js/Game/Game.js): the orchestrator of the three-starter       *)
(* scene.  The model follows one Game instance from its construction:      *)
(* cover click, optional device-orientation permission, init(), the        *)
(* asynchronous asset loads, the start-up continuation passed to           *)
(* modelManager.loadModels, and the requestAnimationFrame render loop.     *)
(*                                                                         *)
(* JavaScript runs one handler at a time.  pc is the position of the       *)
(* single control thread: Idle between handlers, <<"cont", i>> at          *)
(* statement i of the start-up continuation, <<"loop", i>> at statement i  *)
(* of _loop.  Host events are taken only when pc = Idle.                   *)
(***************************************************************************)
EXTENDS Integers, Sequences, FiniteSets

\* Game.js:108-121, the four geometries handed to loadGeometries.
GeometryList == {"Ground", "Skybox", "GreenCube", "BlueWall"}

\* Game.js:124-127, the two models handed to loadModels.
ModelList == {"Fox", "IceTruck"}

\* Game.js:130-135, the light created by init().
LightList == {"MainSpotLight"}

\* Game.js:158-178, the global and the positional audio.
SoundList == {"AmbientMusic", "CarSound"}

\* Largest viewport width and height, in pixels, that the host takes.
MaxWidth == 3
MaxHeight == 2

VARIABLES
  debugMode,            \* this._debugMode
  hasRequestPermission, \* typeof DeviceOrientationEvent.requestPermission === 'function'
  cover,                \* the #cover element: "present" or "removed"
  permission,           \* the requestPermission() promise
  initCalls,            \* number of calls of init()
  renderer,             \* this.renderer exists
  lights,               \* lightingManager.lights
  geomLoad,             \* state of each geometry load
  modelLoad,            \* state of each model load
  aggFailures,          \* per asset class, number of aggregate failures raised
  errorSurfaced,        \* a start-up error reached the caller of init()
  failedDuringStartup,  \* a load failed before the loop was started
  contRuns,             \* number of runs of the start-up continuation
  pc,                   \* position of the control thread
  contResume,           \* statement of the continuation to resume when _loop returns
  scene,                \* identifiers in sceneManager.scene
  addThingsCalls,       \* number of sceneManager.addThings calls
  cameraPosition,       \* cameraManager position, << >> before setPosition
  cameraTarget,         \* cameraManager lookAt target, << >> before lookAtSomething
  controls,             \* controlsManager.controls: "unbound" or "bound"
  foxX,                 \* fox.position.x
  listener,             \* soundManager.setup has run
  audio,                \* state of each sound
  rafPending,           \* frame requests pending at the host
  tickLog,              \* calls made by the current (or last) tick of _loop
  tickRaised,           \* the last tick ended by an exception escaping to the host
  everRaised,           \* some tick ended by an exception
  rendered,             \* renderer.render has been called
  stopFlag,             \* an external shutdown was requested
  innerWidth,           \* window.innerWidth
  innerHeight,          \* window.innerHeight
  rendererSize,         \* size given to renderer.setSize, << >> without renderer
  cameraAspect,         \* cameraManager.camera.aspect as <<width, height>>
  mouse,                \* this._mouse, each component a fraction <<num, den>>
  raySample,            \* the pointer sample last handed to the raycaster
  lastTouch,            \* <<clientX, clientY, width, height>> of the last touchend
  touched,              \* the last touchedElementIdentifier, "" before any
  debugLog,             \* the last entry of this._debuglogs, "" before any
  uncaught              \* handlers that let an exception escape to the host

vars == <<debugMode, hasRequestPermission, cover, permission, initCalls, renderer,
          lights, geomLoad, modelLoad, aggFailures, errorSurfaced,
          failedDuringStartup, contRuns, pc, contResume, scene, addThingsCalls,
          cameraPosition, cameraTarget, controls, foxX, listener, audio,
          rafPending, tickLog, tickRaised, everRaised, rendered, stopFlag,
          innerWidth, innerHeight, rendererSize, cameraAspect, mouse, raySample,
          lastTouch, touched, debugLog, uncaught>>

Idle == <<"idle", 0>>

----
\* ContOrder with the loop started before the camera and the controls are set up.
ContOrder_LoopBeforeCamera ==
  << "addGeometries", "addModels", "addLights", "loop", "setPosition",
     "lookAtSomething", "initDeviceOrientation", "foxPosition", "soundSetup",
     "createGlobalAudio", "createPositionalAudio" >>

\* The statements of the continuation passed to loadModels, in program order.
ContOrder ==
  << "addGeometries", "addModels", "addLights", "setPosition", "lookAtSomething",
     "initDeviceOrientation", "foxPosition", "soundSetup", "createGlobalAudio",
     "createPositionalAudio", "loop" >>

\* LoopOrder with the render before the controls update.
LoopOrder_RenderFirst ==
  << "requestAnimationFrame", "statsBegin", "render", "update", "statsEnd" >>

\* LoopOrder with the frame request at the end of the tick.
LoopOrder_RequestLast ==
  << "statsBegin", "update", "render", "statsEnd", "requestAnimationFrame" >>

\* LoopOrder with the frame request between the update and the render.
LoopOrder_RequestMiddle ==
  << "statsBegin", "update", "requestAnimationFrame", "render", "statsEnd" >>

\* LoopOrder with a second frame request at the end of the tick.
LoopOrder_RequestTwice ==
  << "requestAnimationFrame", "statsBegin", "update", "render", "statsEnd",
     "requestAnimationFrame" >>

\* The statements of _loop, in program order.
LoopOrder ==
  << "requestAnimationFrame", "statsBegin", "update", "render", "statsEnd" >>

\* LoadCallbacks with the continuation handed to loadGeometries as well.
LoadCallbacks_BothClasses == [geometries |-> TRUE, models |-> TRUE, onError |-> FALSE]

\* What init() registers with the managers: loadGeometries gets no callback,
\* loadModels gets the continuation, neither gets an error handler.
LoadCallbacks == [geometries |-> FALSE, models |-> TRUE, onError |-> FALSE]

\* ControlsBinder.update never throws.
UpdateOutcomes == {"ok"}

\* The render primitive may fail transiently.
RenderOutcomes == {"ok", "throw"}

\* geometryManager.geometries and modelManager.models: the loaded assets.
LoadedGeometries == {g \in GeometryList : geomLoad[g] = "done"}
LoadedModels == {m \in ModelList : modelLoad[m] = "done"}

\* modelManager.getModelReferenceByIdentifier
getModelReferenceByIdentifier(id) ==
  IF id \in LoadedModels THEN id ELSE "undefined"

\* The RenderLoopScheduler state: Running from the first entry of _loop for
\* as long as a tick is executing or a frame request is pending.
LoopState == IF pc[1] = "loop" \/ rafPending > 0 THEN "Running" ELSE "Stopped"

----
InitGame ==
  /\ debugMode \in BOOLEAN
  /\ hasRequestPermission \in BOOLEAN
  /\ cover = "present"
  /\ permission = "none"
  /\ initCalls = 0
  /\ renderer = FALSE
  /\ lights = {}
  /\ geomLoad = [g \in GeometryList |-> "idle"]
  /\ modelLoad = [m \in ModelList |-> "idle"]
  /\ aggFailures = [geometries |-> 0, models |-> 0]
  /\ errorSurfaced = FALSE
  /\ failedDuringStartup = FALSE
  /\ contRuns = 0
  /\ pc = Idle
  /\ contResume = 0
  /\ scene = {}
  /\ addThingsCalls = 0
  /\ cameraPosition = << >>
  /\ cameraTarget = << >>
  /\ controls = "unbound"
  /\ foxX = 0
  /\ listener = FALSE
  /\ audio = [s \in SoundList |-> "none"]
  /\ rafPending = 0
  /\ tickLog = << >>
  /\ tickRaised = FALSE
  /\ everRaised = FALSE
  /\ rendered = FALSE
  /\ stopFlag = FALSE
  /\ rendererSize = << >>
  /\ cameraAspect = <<innerWidth, innerHeight>>
  /\ mouse = [x |-> <<0, 1>>, y |-> <<0, 1>>]
  /\ raySample = [x |-> <<0, 1>>, y |-> <<0, 1>>]
  /\ lastTouch = << >>
  /\ touched = ""
  /\ debugLog = ""
  /\ uncaught = {}

\* The game right after construction, in a viewport of the largest size.
Init ==
  /\ innerWidth = MaxWidth
  /\ innerHeight = MaxHeight
  /\ InitGame

\* The game right after construction, in a viewport of any size.
PointerInit ==
  /\ innerWidth \in 1..MaxWidth
  /\ innerHeight \in 1..MaxHeight
  /\ InitGame

gameVars == <<debugMode, hasRequestPermission>>
loadVars == <<geomLoad, modelLoad, aggFailures, errorSurfaced, failedDuringStartup>>
sceneVars == <<scene, addThingsCalls, cameraPosition, cameraTarget, controls, foxX,
               listener, audio>>
loopVars == <<rafPending, tickLog, tickRaised, everRaised, rendered>>
inputVars == <<innerWidth, innerHeight, cameraAspect, mouse, raySample, lastTouch,
               touched, debugLog, uncaught>>

\* init(): renderer, geometries, models, light, then the two load requests.
\* It returns before any load completes.
init ==
  /\ initCalls' = initCalls + 1
  /\ renderer' = TRUE
  /\ rendererSize' = <<innerWidth, innerHeight>>
  /\ lights' = lights \cup LightList
  /\ geomLoad' = [g \in GeometryList |-> "inflight"]
  /\ modelLoad' = [m \in ModelList |-> "inflight"]

\* CoverClick with the cover left in place, so that it can be clicked again.
CoverClick_CoverStays ==
  /\ pc = Idle
  /\ cover = "present"
  /\ cover' = "present"
  /\ \/ /\ hasRequestPermission
        /\ permission' = "pending"
        /\ UNCHANGED <<initCalls, renderer, rendererSize, lights, geomLoad, modelLoad>>
     \/ /\ ~hasRequestPermission
        /\ init
        /\ UNCHANGED permission
  /\ UNCHANGED <<gameVars, inputVars, aggFailures, errorSurfaced,
                 failedDuringStartup, contRuns,
                 pc, contResume, sceneVars, loopVars, stopFlag>>

\* The click listener of the cover.
CoverClick ==
  /\ pc = Idle
  /\ cover = "present"
  /\ cover' = "removed"
  /\ \/ /\ hasRequestPermission
        /\ permission' = "pending"
        /\ UNCHANGED <<initCalls, renderer, rendererSize, lights, geomLoad, modelLoad>>
     \/ /\ ~hasRequestPermission
        /\ init
        /\ UNCHANGED permission
  /\ UNCHANGED <<gameVars, inputVars, aggFailures, errorSurfaced,
                 failedDuringStartup, contRuns,
                 pc, contResume, sceneVars, loopVars, stopFlag>>

\* PermissionSettled with init() called whatever the response.
PermissionSettled_AnyResponse ==
  /\ pc = Idle
  /\ permission = "pending"
  /\ permission' \in {"granted", "denied", "rejected"}
  /\ init
  /\ UNCHANGED <<gameVars, inputVars, cover, aggFailures, errorSurfaced,
                 failedDuringStartup,
                 contRuns, pc, contResume, sceneVars, loopVars, stopFlag>>

\* The requestPermission() promise settles: .then(response) or .catch.
PermissionSettled ==
  /\ pc = Idle
  /\ permission = "pending"
  /\ \/ /\ permission' = "granted"
        /\ init
     \/ /\ permission' \in {"denied", "rejected"}
        /\ UNCHANGED <<initCalls, renderer, rendererSize, lights, geomLoad, modelLoad>>
  /\ UNCHANGED <<gameVars, inputVars, cover, aggFailures, errorSurfaced,
                 failedDuringStartup,
                 contRuns, pc, contResume, sceneVars, loopVars, stopFlag>>

----
\* The load coordinator calls the continuation registered for a class when the
\* last load of the class succeeds and none has failed.
BatchComplete(load) == \A a \in DOMAIN load : load[a] = "done"

Complete(registered, load) ==
  IF registered /\ BatchComplete(load)
  THEN /\ pc' = <<"cont", 1>>
       /\ contRuns' = contRuns + 1
  ELSE UNCHANGED <<pc, contRuns>>

\* The aggregate of a class fails on the first failure of the class; the error
\* goes to the error handler init() registered, if any.
Fail(class, load) ==
  /\ aggFailures' = [aggFailures EXCEPT
                       ![class] = IF \E a \in DOMAIN load : load[a] = "failed"
                                  THEN @ ELSE @ + 1]
  /\ errorSurfaced' = (errorSurfaced \/ LoadCallbacks.onError)
  /\ failedDuringStartup' = (failedDuringStartup \/ LoopState = "Stopped")

GeometryLoaded(g) ==
  /\ pc = Idle
  /\ geomLoad[g] = "inflight"
  /\ geomLoad' = [geomLoad EXCEPT ![g] = "done"]
  /\ Complete(LoadCallbacks.geometries, geomLoad')
  /\ UNCHANGED <<gameVars, inputVars, cover, permission,
                 initCalls, renderer, rendererSize, lights, modelLoad,
                 aggFailures, errorSurfaced, failedDuringStartup, contResume,
                 sceneVars, loopVars, stopFlag>>

GeometryFailed(g) ==
  /\ pc = Idle
  /\ geomLoad[g] = "inflight"
  /\ geomLoad' = [geomLoad EXCEPT ![g] = "failed"]
  /\ Fail("geometries", geomLoad)
  /\ UNCHANGED <<gameVars, inputVars, cover, permission,
                 initCalls, renderer, rendererSize, lights, modelLoad,
                 contRuns, pc, contResume, sceneVars, loopVars, stopFlag>>

ModelLoaded(m) ==
  /\ pc = Idle
  /\ modelLoad[m] = "inflight"
  /\ modelLoad' = [modelLoad EXCEPT ![m] = "done"]
  /\ Complete(LoadCallbacks.models, modelLoad')
  /\ UNCHANGED <<gameVars, inputVars, cover, permission,
                 initCalls, renderer, rendererSize, lights, geomLoad,
                 aggFailures, errorSurfaced, failedDuringStartup, contResume,
                 sceneVars, loopVars, stopFlag>>

ModelFailed(m) ==
  /\ pc = Idle
  /\ modelLoad[m] = "inflight"
  /\ modelLoad' = [modelLoad EXCEPT ![m] = "failed"]
  /\ Fail("models", modelLoad)
  /\ UNCHANGED <<gameVars, inputVars, cover, permission,
                 initCalls, renderer, rendererSize, lights, geomLoad,
                 contRuns, pc, contResume, sceneVars, loopVars, stopFlag>>

----
\* sceneManager.addThings: the things given join the scene graph.
addThings(things) == scene \cup things

\* Entry of _loop: a new tick begins.
EnterLoop ==
  /\ pc' = <<"loop", 1>>
  /\ tickLog' = << >>
  /\ tickRaised' = FALSE

\* One statement of the continuation passed to loadModels.
ContStep ==
  /\ pc[1] = "cont"
  /\ LET i == pc[2]
         s == ContOrder[i]
         throws == s = "foxPosition" /\ getModelReferenceByIdentifier("Fox") = "undefined"
     IN /\ scene' = CASE s = "addGeometries" -> addThings(LoadedGeometries)
                      [] s = "addModels" -> addThings(LoadedModels)
                      [] s = "addLights" -> addThings(lights)
                      [] OTHER -> scene
        /\ addThingsCalls' = IF s \in {"addGeometries", "addModels", "addLights"}
                             THEN addThingsCalls + 1 ELSE addThingsCalls
        /\ cameraPosition' = IF s = "setPosition" THEN <<3, 5, 10>> ELSE cameraPosition
        /\ cameraTarget' = IF s = "lookAtSomething" THEN <<0, 5, 0>> ELSE cameraTarget
        /\ controls' = IF s = "initDeviceOrientation" THEN "bound" ELSE controls
        /\ foxX' = IF s = "foxPosition" /\ ~throws THEN 2 ELSE foxX
        /\ listener' = (listener \/ s = "soundSetup")
        /\ audio' = CASE s = "createGlobalAudio" ->
                           [audio EXCEPT !["AmbientMusic"] = "loading"]
                      [] s = "createPositionalAudio" ->
                           [audio EXCEPT !["CarSound"] = "loading"]
                      [] OTHER -> audio
        /\ IF s = "loop"
           THEN /\ EnterLoop
                /\ contResume' = i + 1
           ELSE /\ pc' = IF throws \/ i = Len(ContOrder) THEN Idle ELSE <<"cont", i + 1>>
                /\ UNCHANGED <<contResume, tickLog, tickRaised>>
  /\ UNCHANGED <<gameVars, inputVars, cover, permission,
                 initCalls, renderer, rendererSize, lights, loadVars,
                 contRuns, rafPending, everRaised, rendered, stopFlag>>

\* AudioCallback with the render loop started from the callback.
AudioCallback_StartsLoop(s, status) ==
  /\ pc = Idle
  /\ audio[s] = "loading"
  /\ audio' = [audio EXCEPT ![s] = IF status THEN "ready" ELSE "failed"]
  /\ IF status THEN EnterLoop ELSE UNCHANGED <<pc, tickLog, tickRaised>>
  /\ UNCHANGED <<gameVars, inputVars, cover, permission,
                 initCalls, renderer, rendererSize, lights, loadVars,
                 contRuns, contResume, scene, addThingsCalls, cameraPosition,
                 cameraTarget, controls, foxX, listener, rafPending, everRaised,
                 rendered, stopFlag>>

\* The host audio loader calls back with the status of a sound.
AudioCallback(s, status) ==
  /\ pc = Idle
  /\ audio[s] = "loading"
  /\ audio' = [audio EXCEPT ![s] = IF status THEN "ready" ELSE "failed"]
  /\ UNCHANGED <<gameVars, inputVars, cover, permission,
                 initCalls, renderer, rendererSize, lights, loadVars,
                 contRuns, pc, contResume, scene, addThingsCalls, cameraPosition,
                 cameraTarget, controls, foxX, listener, loopVars, stopFlag>>

----
\* The host delivers a pending animation frame: it calls _loop.
HostFrame ==
  /\ pc = Idle
  /\ rafPending > 0
  /\ rafPending' = rafPending - 1
  /\ EnterLoop
  /\ UNCHANGED <<gameVars, inputVars, cover, permission,
                 initCalls, renderer, rendererSize, lights, loadVars,
                 contRuns, contResume, sceneVars, everRaised, rendered, stopFlag>>

\* The outcomes of a statement of _loop.
Outcomes(s) ==
  CASE s = "update" -> UpdateOutcomes
    [] s = "render" -> RenderOutcomes
    [] OTHER -> {"ok"}

\* One statement of _loop.  An exception leaves _loop and its caller and
\* reaches the host, which reports it; the statements after it are skipped.
LoopStep ==
  /\ pc[1] = "loop"
  /\ LET i == pc[2]
         s == LoopOrder[i]
     IN \E o \in Outcomes(s) :
          /\ rafPending' = IF s = "requestAnimationFrame"
                           THEN rafPending + 1 ELSE rafPending
          /\ tickLog' = IF s \in {"requestAnimationFrame", "update", "render"}
                        THEN Append(tickLog, s) ELSE tickLog
          /\ rendered' = (rendered \/ s = "render")
          /\ tickRaised' = (o = "throw")
          /\ everRaised' = (everRaised \/ o = "throw")
          /\ pc' = IF o = "throw" THEN Idle
                   ELSE IF i < Len(LoopOrder) THEN <<"loop", i + 1>>
                   ELSE IF contResume \in 1..Len(ContOrder) THEN <<"cont", contResume>>
                   ELSE Idle
          /\ contResume' = IF o = "throw" \/ i = Len(LoopOrder) THEN 0 ELSE contResume
  /\ UNCHANGED <<gameVars, inputVars, cover, permission,
                 initCalls, renderer, rendererSize, lights, loadVars,
                 contRuns, sceneVars, stopFlag>>

\* An external shutdown request.  Nothing in Game reads it.
Shutdown ==
  /\ pc = Idle
  /\ ~stopFlag
  /\ stopFlag' = TRUE
  /\ UNCHANGED <<gameVars, inputVars, cover, permission,
                 initCalls, renderer, rendererSize, lights, loadVars,
                 contRuns, pc, contResume, sceneVars, loopVars>>

----
\* The debug components the constructor creates for the value of isDebugMode.
DebugComponents ==
  IF debugMode THEN {"stats", "gui", "_debuglogs", "_debugPanel"} ELSE {}

\* NormY without the inversion of the vertical axis.
NormY_NotInverted(clientY, height) == <<2 * clientY - height, height>>

\* (clientX / window.innerWidth) * 2 - 1, as the fraction <<num, den>>.
NormX(clientX, width) == <<2 * clientX - width, width>>

\* -(clientY / window.innerHeight) * 2 + 1, as the fraction <<num, den>>.
NormY(clientY, height) == <<height - 2 * clientY, height>>

\* The statements of onTouchEnd, in program order.
TouchOrder ==
  << "mouseX", "mouseY", "getTouchedElementIdentifier", "addLog", "consoleLog" >>

\* One statement of onTouchEnd on the handler's state st for the event ev.
\* The raycaster answers ev.hit; addLog needs this._debuglogs.
TouchExec(s, st, ev) ==
  CASE s = "mouseX" ->
         [st EXCEPT !.mouse = [@ EXCEPT !.x = NormX(ev.clientX, innerWidth)]]
    [] s = "mouseY" ->
         [st EXCEPT !.mouse = [@ EXCEPT !.y = NormY(ev.clientY, innerHeight)]]
    [] s = "getTouchedElementIdentifier" ->
         [st EXCEPT !.ray = st.mouse, !.touched = ev.hit]
    [] s = "addLog" ->
         IF "_debuglogs" \in DebugComponents
         THEN [st EXCEPT !.log = st.touched]
         ELSE [st EXCEPT !.raised = TRUE]
    [] OTHER -> st

\* The statements of a handler run in order until one raises.
RECURSIVE RunTouch(_, _, _)
RunTouch(order, st, ev) ==
  IF order = << >> \/ st.raised THEN st
  ELSE RunTouch(Tail(order), TouchExec(Head(order), st, ev), ev)

\* What the raycaster can answer on the current scene graph.
Hits == scene \cup {"none"}

\* onTouchEnd for a touch at (clientX, clientY) whose ray meets hit.
onTouchEnd(clientX, clientY, hit) ==
  /\ pc = Idle
  /\ hit \in Hits
  /\ LET ev == [clientX |-> clientX, clientY |-> clientY, hit |-> hit]
         st0 == [mouse |-> mouse, ray |-> raySample, touched |-> touched,
                 log |-> debugLog, raised |-> FALSE]
         st == RunTouch(TouchOrder, st0, ev)
     IN /\ mouse' = st.mouse
        /\ raySample' = st.ray
        /\ touched' = st.touched
        /\ debugLog' = st.log
        /\ uncaught' = IF st.raised THEN uncaught \cup {"onTouchEnd"} ELSE uncaught
  /\ lastTouch' = <<clientX, clientY, innerWidth, innerHeight>>
  /\ UNCHANGED <<gameVars, cover, permission, initCalls, renderer, rendererSize, lights,
                 loadVars, contRuns, pc, contResume, sceneVars, loopVars, stopFlag,
                 innerWidth, innerHeight, cameraAspect>>

\* The window takes the size (width, height) and resizeViewport runs.
\* this.renderer is undefined until init(): renderer.setSize then raises and
\* the camera is left as it was.
resizeViewport(width, height) ==
  /\ pc = Idle
  /\ innerWidth' = width
  /\ innerHeight' = height
  /\ IF renderer
     THEN /\ rendererSize' = <<width, height>>
          /\ cameraAspect' = <<width, height>>
          /\ UNCHANGED uncaught
     ELSE /\ uncaught' = uncaught \cup {"resizeViewport"}
          /\ UNCHANGED <<rendererSize, cameraAspect>>
  /\ UNCHANGED <<gameVars, cover, permission, initCalls, renderer, lights, loadVars,
                 contRuns, pc, contResume, sceneVars, loopVars, stopFlag,
                 mouse, raySample, lastTouch, touched, debugLog>>

----
Next ==
  \/ CoverClick
  \/ PermissionSettled
  \/ \E g \in GeometryList : GeometryLoaded(g)
  \/ \E g \in GeometryList : GeometryFailed(g)
  \/ \E m \in ModelList : ModelLoaded(m)
  \/ \E m \in ModelList : ModelFailed(m)
  \/ ContStep
  \/ \E s \in SoundList, status \in BOOLEAN : AudioCallback(s, status)
  \/ HostFrame
  \/ LoopStep
  \/ Shutdown

\* The life cycle of the game: start-up, loads, render loop, audio, shutdown.
\* The touchend and resize handlers read and write none of its variables but
\* renderer and scene, which they only read; they are followed in InputSpec.
Spec == Init /\ [][Next]_vars

\* The pointer and viewport handlers over every viewport size and every touch
\* point, on the game as constructed.
PointerNext ==
  \/ \E x \in 0..MaxWidth, y \in 0..MaxHeight, hit \in Hits : onTouchEnd(x, y, hit)
  \/ \E w \in 1..MaxWidth, h \in 1..MaxHeight : resizeViewport(w, h)

PointerSpec == PointerInit /\ [][PointerNext]_vars

\* The touchend and resize listeners, registered by the constructor, in every
\* interleaving with the start-up and the render loop, in behaviours where no
\* sound calls back and no shutdown is requested.  The touch point is the top
\* right corner and a resize leaves the size as it is; PointerSpec ranges
\* over the sizes and the points.
InputNext ==
  \/ CoverClick
  \/ PermissionSettled
  \/ \E g \in GeometryList : GeometryLoaded(g)
  \/ \E g \in GeometryList : GeometryFailed(g)
  \/ \E m \in ModelList : ModelLoaded(m)
  \/ \E m \in ModelList : ModelFailed(m)
  \/ ContStep
  \/ HostFrame
  \/ LoopStep
  \/ \E hit \in Hits : onTouchEnd(innerWidth, 0, hit)
  \/ resizeViewport(innerWidth, innerHeight)

InputSpec == Init /\ [][InputNext]_vars

\* The host runs a started handler to its end and delivers every frame it was
\* asked for.
FairSpec == Spec /\ WF_vars(ContStep) /\ WF_vars(LoopStep) /\ WF_vars(HostFrame)

----
\* Helpers over the calls of a tick.
Count(e) == Cardinality({i \in 1..Len(tickLog) : tickLog[i] = e})

Precedes(a, b) ==
  \A j \in 1..Len(tickLog) :
    tickLog[j] = b => \E i \in 1..(j - 1) : tickLog[i] = a

\* The step appends the call e to the log of the tick.
Issued(e) ==
  /\ Len(tickLog') = Len(tickLog) + 1
  /\ tickLog'[Len(tickLog')] = e

\* A tick has ended (normally or by an exception) and the next has not begun.
TickEnded == pc[1] # "loop" /\ tickLog # << >>

AnyLoadFailed ==
  \/ \E g \in GeometryList : geomLoad[g] = "failed"
  \/ \E m \in ModelList : modelLoad[m] = "failed"

StartupDone ==
  /\ addThingsCalls = 3
  /\ scene # {}
  /\ cameraPosition # << >>
  /\ controls = "bound"

----
\* C1: scene composition (any addThings call) happens only after every
\* geometry load, every model load and the light creation have completed; in
\* particular never while a geometry load is still in flight.
C1_ComposeAfterAllLoads ==
  addThingsCalls > 0 =>
    /\ \A g \in GeometryList : geomLoad[g] = "done"
    /\ \A m \in ModelList : modelLoad[m] = "done"
    /\ LightList \subseteq lights

\* C2: no render call is issued, and the loop is not Running, before the
\* three addThings calls have populated the scene, the camera position is set
\* and the controls are bound.
C2_RenderAfterStartup ==
  (rendered \/ LoopState = "Running") => StartupDone

C2_Witness == rendered /\ StartupDone /\ pc = Idle

C4_NoCompositionAfterFailure ==
  AnyLoadFailed =>
    /\ addThingsCalls = 0
    /\ \A c \in {"geometries", "models"} : aggFailures[c] <= 1
    /\ aggFailures["geometries"] + aggFailures["models"] >= 1

\* C5: after a failure during start-up the system rests in the Stopped state
\* with the camera position unset and the controls unbound.
C5_FailureLeavesStopped ==
  (failedDuringStartup /\ pc = Idle) =>
    /\ LoopState = "Stopped"
    /\ cameraPosition = << >>
    /\ controls = "unbound"

\* C6: every failed start-up produces an error outcome that the caller of
\* init() observes.
C6_FailureSurfaced == failedDuringStartup => errorSurfaced

\* C7: once an external shutdown has set the stop flag, the loop issues no
\* further render call and requests no further tick.
C7_StopFlagHonoured ==
  [][stopFlag => ~Issued("render") /\ ~Issued("requestAnimationFrame")]_vars

\* C8: in every tick the controls update comes strictly before the render,
\* and a tick makes exactly one update call and exactly one render call.
C8_UpdateThenRender ==
  /\ Count("update") <= 1
  /\ Count("render") <= 1
  /\ Precedes("update", "render")
  /\ TickEnded => Count("update") = 1 /\ Count("render") = 1

C8_Witness ==
  /\ TickEnded
  /\ ~tickRaised
  /\ tickLog = <<"requestAnimationFrame", "update", "render">>

C10_RequestAfterWork ==
  /\ Precedes("update", "requestAnimationFrame")
  /\ Precedes("render", "requestAnimationFrame")

\* C10 as amended: each tick issues its one frame request first, before its
\* update and its render; the requested tick is entered only when the control
\* thread is idle, hence after the current tick has run to its end.
C10_RequestFirst ==
  /\ Count("requestAnimationFrame") <= 1
  /\ Precedes("requestAnimationFrame", "update")
  /\ Precedes("requestAnimationFrame", "render")
  /\ (pc[1] = "loop" /\ pc[2] > 1) => Count("requestAnimationFrame") = 1
  /\ (pc[1] = "loop" /\ pc[2] = 1) => tickLog = << >>

C10_Witness ==
  /\ pc = <<"loop", 3>>
  /\ tickLog = <<"requestAnimationFrame">>
  /\ rafPending = 1

\* C11: every tick issues exactly one frame request, so at most one request is
\* pending at any moment and none is pending while a tick has not yet issued
\* its own.
C11_OneRequestPending ==
  /\ rafPending <= 1
  /\ (pc[1] = "loop" /\ Count("requestAnimationFrame") = 0) => rafPending = 0
  /\ TickEnded => (Count("requestAnimationFrame") = 1 /\ rafPending = 1)

C11_Witness ==
  /\ TickEnded
  /\ rafPending = 1
  /\ everRaised
  /\ contResume = 0
  /\ stopFlag

\* C14: once the continuation has run, the loop is Running whatever the state
\* of the two sounds, and an audio callback neither stops nor restarts it.
C14_AudioIndependent ==
  /\ []((contRuns >= 1 /\ pc = Idle) => LoopState = "Running")
  /\ [][(pc = Idle /\ audio' # audio) =>
          (pc' = pc /\ rafPending' = rafPending /\ tickLog' = tickLog)]_vars

C14_Witness ==
  /\ LoopState = "Running"
  /\ rendered
  /\ audio["AmbientMusic"] = "failed"
  /\ audio["CarSound"] = "loading"

\* C15: init() is called at most once, so at most one renderer is created and
\* at most one chain of frame requests is started.
C15_InitAtMostOnce ==
  /\ initCalls <= 1
  /\ contRuns <= initCalls
  /\ rafPending <= initCalls
  /\ renderer <=> initCalls = 1

C15_Witness == initCalls = 1 /\ cover = "removed" /\ TickEnded

\* C16: init() is called only after the cover was clicked and, where the host
\* has requestPermission, only after the response 'granted'; after any other
\* response or a rejection init() is never called and the loop stays Stopped.
C16_InitAfterPermission ==
  /\ initCalls > 0 => cover = "removed"
  /\ (initCalls > 0 /\ hasRequestPermission) => permission = "granted"
  /\ permission \in {"pending", "denied", "rejected"} =>
       (initCalls = 0 /\ ~renderer /\ LoopState = "Stopped")
  /\ ~hasRequestPermission => permission = "none"

C16_Witness == hasRequestPermission /\ permission = "granted" /\ initCalls = 1

----
\* Fractions <<num, den>> with den > 0.
Less(a, b) == a[1] * b[2] < b[1] * a[2]
InUnit(a) == -a[2] <= a[1] /\ a[1] <= a[2]
IsMinusOne(a) == a[1] = -a[2]
IsPlusOne(a) == a[1] = a[2]

\* C12: a touchend on an empty scene graph (before init(), or before the
\* composition) resolves to "none" and its handler raises no error.
C12_TouchOnEmptyScene ==
  (lastTouch # << >> /\ scene = {}) =>
    /\ touched = "none"
    /\ "onTouchEnd" \notin uncaught

\* C13: for a touch point inside the viewport the sample handed to the
\* raycaster is the one computed from this event, its x and y lie in [-1, 1],
\* x is -1 at the left edge, +1 at the right edge and increases in between,
\* y is +1 at the top edge, -1 at the bottom edge and decreases in between.
C13_NormalizedSample ==
  lastTouch # << >> =>
    LET cx == lastTouch[1]
        cy == lastTouch[2]
        w == lastTouch[3]
        h == lastTouch[4]
    IN (cx <= w /\ cy <= h) =>
         /\ raySample = mouse
         /\ InUnit(raySample.x) /\ InUnit(raySample.y)
         /\ cx = 0 => IsMinusOne(raySample.x)
         /\ cx = w => IsPlusOne(raySample.x)
         /\ cy = 0 => IsPlusOne(raySample.y)
         /\ cy = h => IsMinusOne(raySample.y)
         /\ (raySample.x[1] + raySample.x[2]) * w = 2 * cx * raySample.x[2]
         /\ (raySample.y[2] - raySample.y[1]) * h = 2 * cy * raySample.y[2]
         /\ \A a, b \in 0..w : a < b => Less(NormX(a, w), NormX(b, w))
         /\ \A a, b \in 0..h : a < b => Less(NormY(b, h), NormY(a, h))

C13_Witness ==
  /\ lastTouch = <<1, 1, 3, 2>>
  /\ mouse = [x |-> <<-1, 3>>, y |-> <<0, 2>>]
  /\ innerWidth = 2

\* C17: resizeViewport never raises: no resize event finds this.renderer
\* missing.
C17_ResizeNeverRaises == "resizeViewport" \notin uncaught

\* C18: onTouchEnd completes without error whatever the debug-mode flag.
C18_TouchNeverRaises == "onTouchEnd" \notin uncaught

====
